---- MODULE Spec2Model ----
(***************************************************************************)
(* State-machine model of SteamNetworkBackend (backend_steam_network.py):  *)
(* the login flow driven by pass_login_credentials, the stored-credential  *)
(* resume, and the feature query methods.  Handlers are split at their     *)
(* await points: between two steps of a handler the protocol session (and  *)
(* the other callers) may act.                                             *)
(***************************************************************************)
EXTENDS Integers, Sequences, FiniteSets, TLC

VARIABLES
    user_info,        \* self._user_info_cache (Identity Record)
    auth_data,        \* self._auth_data: <<>> is None, else <<username, password>>
    ws_queue,         \* communication_queues["websocket"]: outbound credential payloads
    plugin_queue,     \* communication_queues["plugin"]: inbound handshake results
    steam_run_task,   \* self._steam_run_task
    pc,               \* position of the authenticate / pass_login_credentials coroutine
    call,             \* what the running (or last) authentication call has done so far
    ret,              \* outcome of the last finished authentication call
    accepted,         \* history: in this session a credential submission has been
                      \* answered by NoActionRequired (received, or substituted on timeout)
    games_ready,      \* readiness signal of self._games_cache
    owned_games_parsed, \* self._owned_games_parsed
    feature,          \* what the last feature query method did
    games_cache,      \* self._games_cache: the gate, the "newly added" queue, the entries
    enumerated,       \* history: a full owned-games enumeration has completed
    update_owned_games_task, \* self._update_owned_games_task
    add_game_log,     \* the entries passed to the host's add_game, in call order
    persistent,       \* _persistent_cache["games"] (<<>>: no such key) and
                      \* _persistent_storage_state.modified
    ticked,           \* what the last tick did
    shut,             \* what the last shutdown did
    caches,           \* self._stats_cache and self._times_cache: flag, readiness, requests
    preparing         \* the callers of the prepare_*_context methods

vars == <<user_info, auth_data, ws_queue, plugin_queue, steam_run_task, pc, call,
          ret, accepted, games_ready, owned_games_parsed, feature,
          games_cache, enumerated, update_owned_games_task, add_game_log, persistent,
          ticked, shut, caches, preparing>>

authVars == <<auth_data, ws_queue, plugin_queue, pc, call, ret, accepted>>
featureVars == <<games_ready, owned_games_parsed, feature>>
schedulerVars == <<games_cache, enumerated, update_owned_games_task, add_game_log,
                   persistent, ticked, shut>>
prepareVars == <<caches, preparing>>

----------------------------------------------------------------------------
(* Bounds of the model *)

MaxQueue == 2     \* most handshake messages in flight: submissions not yet answered
                  \* plus results not yet consumed
MaxCallers == 2   \* most overlapping callers of the prepare_*_context methods

----------------------------------------------------------------------------
(* Values *)

None == "None"

SteamIds == {"7656"}
PersonaNames == {"GabeN"}

\* steam_network.websocket_client.UserActionRequired, as used by the backend
NoActionRequired == "NoActionRequired"
EmailTwoFactorInputRequired == "EmailTwoFactorInputRequired"
PhoneTwoFactorInputRequired == "PhoneTwoFactorInputRequired"
InvalidAuthData == "InvalidAuthData"
UserActionRequired ==
    {NoActionRequired, EmailTwoFactorInputRequired, PhoneTwoFactorInputRequired,
     InvalidAuthData}

\* the errors the backend raises
AuthenticationRequired == "AuthenticationRequired"
UnknownBackendResponse == "UnknownBackendResponse"
UnknownError == "UnknownError"
BackendTimeout == "BackendTimeout"

\* outcomes of an authentication call
Authentication(user_id, user_name) == [kind |-> "Authentication", a |-> user_id, b |-> user_name]
next_step_response(start_uri, end_uri) == [kind |-> "NextStep", a |-> start_uri, b |-> end_uri]
Raised(error) == [kind |-> "Raise", a |-> error, b |-> None]
ReturnedNone == [kind |-> "None", a |-> None, b |-> None]
NoCallYet == [kind |-> "NoCall", a |-> None, b |-> None]

----------------------------------------------------------------------------
(* Completion payloads: credentials["end_uri"] as a path and a query string *)

Uri(path, query) == [path |-> path, query |-> query]

EndUris ==
    { Uri("login_finished", <<<<"username", "alice">>, <<"password", "pw1">>>>),
      Uri("login_finished", <<<<"username", "">>, <<"password", "pw1">>>>),
      Uri("two_factor_mobile_finished", <<<<"code", "12345">>>>),
      Uri("two_factor_mobile_finished", <<<<"resend", "true">>>>),
      Uri("two_factor_mail_finished", <<<<"code", "12345">>>>),
      Uri("two_factor_mail_finished", <<<<"resend", "true">>>>),
      Uri("two_factor_mail_finished", <<<<"resend", "true">>, <<"code", "12345">>>>),
      Uri("two_factor_mail_finished", <<>>),
      Uri("public_prompt_finished", <<<<"public_profile_fallback", "true">>>>),
      Uri("public_prompt_finished", <<<<"public_profile_fallback", "false">>>>),
      Uri("public_prompt_finished", <<<<"public_profile_fallback", "maybe">>>>),
      Uri("public_prompt_finished", <<>>),
      Uri("about_blank", <<>>) }

\* `marker in credentials["end_uri"]`: the query values of EndUris hold no marker
Contains(uri, marker) == uri.path = marker

\* the non-blank values of key k, in order (parse_qs drops blank values)
ValuesOf(query, k) ==
    LET f[i \in 0..Len(query)] ==
            IF i = 0 THEN <<>>
            ELSE IF query[i][1] = k /\ query[i][2] # ""
                 THEN Append(f[i - 1], query[i][2])
                 ELSE f[i - 1]
    IN f[Len(query)]

\* urllib.parse.parse_qs: key -> list of values
parse_qs(query) ==
    [k \in {query[i][1] : i \in {j \in DOMAIN query : query[j][2] # ""}}
        |-> ValuesOf(query, k)]

\* dict(urllib.parse.parse_qsl(query)).get(k): the last value of k, or None
parse_qsl_get(query, k) ==
    LET vs == ValuesOf(query, k)
    IN IF vs = <<>> THEN None ELSE vs[Len(vs)]

\* distutils.util.strtobool
strtobool(val) ==
    IF val = None THEN "AttributeError"
    ELSE IF val \in {"y", "yes", "t", "true", "on", "1"} THEN "1"
    ELSE IF val \in {"n", "no", "f", "false", "off", "0"} THEN "0"
    ELSE "ValueError"

----------------------------------------------------------------------------
(* Identity Record *)

EmptyUserInfo ==
    [steam_id |-> None, persona_name |-> None, account_username |-> None,
     changed |-> FALSE, initialized |-> FALSE]

\* UserInfoCache.from_dict(): restore the persisted fields
from_dict(ui, creds) ==
    [ui EXCEPT !.steam_id = creds.steam_id, !.persona_name = creds.persona_name,
               !.account_username = creds.account_username]

StoredCredentials ==
    { [steam_id |-> "7656", persona_name |-> "Gabe", account_username |-> "alice"] }

\* (mutant) the captured username is not written to the Identity Record
set_account_username_dropped(ui, username) == ui

\* `self._user_info_cache.account_username = username`
set_account_username(ui, username) ==
    [ui EXCEPT !.account_username = username, !.changed = TRUE]

----------------------------------------------------------------------------
(* Bookkeeping of one authentication call *)

\* the step descriptors of the login flow
LoginStep == next_step_response("LOGIN", "LOGIN_FINISHED")
LoginFailedStep == next_step_response("LOGIN_FAILED", "LOGIN_FINISHED")
MailStep == next_step_response("TWO_FACTOR_MAIL", "TWO_FACTOR_MAIL_FINISHED")
MobileStep == next_step_response("TWO_FACTOR_MOBILE", "TWO_FACTOR_MOBILE_FINISHED")
MailFailedStep == next_step_response("TWO_FACTOR_MAIL_FAILED", "TWO_FACTOR_MAIL_FINISHED")
MobileFailedStep == next_step_response("TWO_FACTOR_MOBILE_FAILED", "TWO_FACTOR_MOBILE_FINISHED")

\* The state of the Authentication Controller is the step the host was last told
\* to show: the program keeps no other record of it.
ControllerState(outcome) ==
    IF outcome \in {LoginStep, LoginFailedStep} THEN "AwaitingCredentials"
    ELSE IF outcome = MailStep THEN "AwaitingTwoFactorEmail"
    ELSE IF outcome = MobileStep THEN "AwaitingTwoFactorMobile"
    ELSE IF outcome.kind = "Authentication" THEN "TerminalSuccess"
    ELSE "Other"

NewCall(handler, uri) ==
    [handler |-> handler, uri |-> uri, fail |-> None, finish |-> None,
     puts |-> <<>>, waits |-> 0, got |-> None, timed_out |-> FALSE,
     checks |-> <<>>, stores |-> 0, cancelled |-> FALSE, done |-> {},
     from |-> ControllerState(ret)]

NoTask == [state |-> "unset", error |-> None]

\* StatsCache() / TimesCache(): no import in progress, not ready; in_flight counts the
\* refresh requests issued and not yet completed
Caches == {"_stats_cache", "_times_cache"}
NewCache == [import_in_progress |-> FALSE, ready |-> FALSE, in_flight |-> 0]

\* a caller of prepare_achievements_context / prepare_game_times_context: where it
\* stands, whether it issued the refresh request, how its last call ended
Callers == 1..MaxCallers
NotPreparing ==
    [method |-> None, cache |-> None, at |-> "idle", requested |-> FALSE, outcome |-> None]

\* asyncio.create_task(asyncio.sleep(0)): the task __init__ puts in
\* _update_owned_games_task; `at` is where a running task stands ("start": created,
\* not yet run; "sleep": suspended in asyncio.sleep(5)), new_games and i are the
\* locals of _update_owned_games, pauses the number of entries forwarded before each
\* of its sleeps
SleepTask ==
    [coro |-> "sleep", state |-> "running", error |-> None, at |-> "start",
     new_games |-> <<>>, i |-> 0, pauses |-> <<>>]

\* GamesCache.dump(): the snapshot of the catalog, here the number of entries added
dump(cache) == cache.added
RunningTask == [state |-> "running", error |-> None]

Init ==
    /\ user_info = EmptyUserInfo
    /\ auth_data = <<>>
    /\ ws_queue = <<>>
    /\ plugin_queue = <<>>
    /\ steam_run_task = NoTask
    /\ pc = "idle"
    /\ call = [handler |-> None, uri |-> Uri(None, <<>>), fail |-> None, finish |-> None,
               puts |-> <<>>, waits |-> 0, got |-> None, timed_out |-> FALSE,
               checks |-> <<>>, stores |-> 0, cancelled |-> FALSE, done |-> {},
               from |-> "Other"]
    /\ ret = NoCallYet
    /\ accepted = FALSE
    /\ games_ready = FALSE
    /\ owned_games_parsed = FALSE
    /\ feature = [method |-> None, steam_id |-> None, outcome |-> None,
                  cache |-> FALSE, request |-> FALSE]
    /\ games_cache = [add_game_lever |-> FALSE, new_games |-> <<>>, added |-> 0]
    /\ enumerated = FALSE
    /\ update_owned_games_task = SleepTask
    /\ add_game_log = <<>>
    /\ persistent = [games |-> <<>>, modified |-> FALSE]
    /\ ticked = [stores |-> 0]
    /\ shut = [called |-> FALSE, raised |-> None]
    /\ caches = [c \in Caches |-> NewCache]
    /\ preparing = [p \in Callers |-> NotPreparing]

----------------------------------------------------------------------------
(* authentication *)

\* the if-chain of pass_login_credentials: which handler takes the payload
Dispatch(uri) ==
    IF Contains(uri, "login_finished") THEN "_handle_login_finished"
    ELSE IF Contains(uri, "two_factor_mobile_finished") THEN "_handle_two_step_mobile_finished"
    ELSE IF Contains(uri, "two_factor_mail_finished") THEN "_handle_two_step_email_finished"
    ELSE IF Contains(uri, "public_prompt_finished") THEN "_handle_public_prompt_finished"
    ELSE None

\* return / raise out of the running call
Finish(outcome) ==
    /\ ret' = outcome
    /\ pc' = "idle"

\* self._store_credentials(self._user_info_cache.to_dict()): the host's callback is
\* called once more in this call
StoreCredentials(c) == [c EXCEPT !.stores = @ + 1]

\* the handshake messages in flight
InFlight == Len(ws_queue) + Len(plugin_queue)

\* await communication_queues["websocket"].put(payload), then on to the bounded wait
PutAndWait(c, payload, wait_pc) ==
    /\ ws_queue' = Append(ws_queue, payload)
    /\ call' = [c EXCEPT !.puts = Append(@, payload)]
    /\ pc' = wait_pc

\* (mutant) the disabled alternative of line 194: the timeout surfaces as BackendTimeout
get_websocket_auth_step_raising(got) ==
    IF got = <<>> THEN BackendTimeout ELSE got[1].auth_result

\* _get_websocket_auth_step: what wait_for(queue.get(), 20) ended with (<<message>>,
\* or <<>> for asyncio.TimeoutError), as the handshake result the handlers act on
_get_websocket_auth_step(got) ==
    IF got = <<>> THEN NoActionRequired ELSE got[1].auth_result

\* What wait_for(queue.get(), 20) ends with in this state: the head of the inbound
\* queue, or, the queue having stayed empty, the timeout
QueueGet == IF plugin_queue = <<>> THEN <<>> ELSE <<Head(plugin_queue)>>

\* the wait over: the message, if any, is off the queue and the call has waited once more
AwaitAuthStep(c) ==
    [c EXCEPT !.waits = @ + 1,
              !.got = IF QueueGet = <<>> THEN None ELSE QueueGet[1].auth_result,
              !.timed_out = (QueueGet = <<>>)]

\* pass_login_credentials with a payload no branch of the if-chain takes
pass_login_credentials_unmatched ==
    /\ pc = "idle"
    /\ \E uri \in EndUris :
        /\ Dispatch(uri) = None
        /\ call' = NewCall(None, uri)
        /\ Finish(ReturnedNone)
    /\ UNCHANGED <<user_info, auth_data, ws_queue, plugin_queue, steam_run_task>>
    /\ UNCHANGED accepted
    /\ UNCHANGED featureVars
    /\ UNCHANGED prepareVars
    /\ UNCHANGED schedulerVars

\* _handle_login_finished up to its first wait
_handle_login_finished ==
    /\ pc = "idle"
    /\ \E uri \in EndUris :
        /\ Dispatch(uri) = "_handle_login_finished"
        /\ LET params == parse_qs(uri.query)
               c == NewCall("_handle_login_finished", uri)
           IN IF "username" \notin DOMAIN params \/ "password" \notin DOMAIN params
              THEN /\ call' = c
                   /\ Finish(next_step_response("LOGIN_FAILED", "LOGIN_FINISHED"))
                   /\ UNCHANGED <<user_info, auth_data, ws_queue>>
              ELSE LET username == params["username"][1]
                       password == params["password"][1]
                   IN /\ InFlight < MaxQueue
                      /\ user_info' = set_account_username(user_info, username)
                      /\ auth_data' = <<username, password>>
                      /\ PutAndWait(c, [password |-> password], "login_wait")
                      /\ UNCHANGED ret
    /\ UNCHANGED <<plugin_queue, steam_run_task>>
    /\ UNCHANGED accepted
    /\ UNCHANGED featureVars
    /\ UNCHANGED prepareVars
    /\ UNCHANGED schedulerVars

\* _handle_login_finished from the handshake result on
LoginResult(result, c) ==
    IF result = NoActionRequired
    THEN /\ auth_data' = <<>>
         /\ call' = StoreCredentials(c)
         /\ pc' = "check_public_profile"
         /\ UNCHANGED ret
    ELSE /\ call' = c
         /\ UNCHANGED auth_data
         /\ IF result = EmailTwoFactorInputRequired
            THEN Finish(next_step_response("TWO_FACTOR_MAIL", "TWO_FACTOR_MAIL_FINISHED"))
            ELSE IF result = PhoneTwoFactorInputRequired
            THEN Finish(next_step_response("TWO_FACTOR_MOBILE", "TWO_FACTOR_MOBILE_FINISHED"))
            ELSE Finish(next_step_response("LOGIN_FAILED", "LOGIN_FINISHED"))

_handle_login_finished_result ==
    /\ pc = "login_wait"
    /\ plugin_queue' = IF plugin_queue = <<>> THEN <<>> ELSE Tail(plugin_queue)
    /\ LoginResult(_get_websocket_auth_step(QueueGet), AwaitAuthStep(call))
    /\ UNCHANGED <<user_info, ws_queue, steam_run_task>>
    /\ accepted' = (accepted \/ _get_websocket_auth_step(QueueGet) = NoActionRequired)
    /\ UNCHANGED featureVars
    /\ UNCHANGED prepareVars
    /\ UNCHANGED schedulerVars

\* what check_is_public_by_steam_id does: return or raise
ProfileChecks ==
    {"public", "ProfileIsNotPublic", "NotPublicGameDetailsOrUserHasNoGames",
     "ProfileDoesNotExist", "ValueError", "Exception"}

\* (mutant) ProfileDoesNotExist and ValueError fall through to the broad except clause
CheckPublicProfileOutcome_broad_except(check, ui) ==
    IF check = "ProfileIsNotPublic"
    THEN next_step_response("PP_PROMPT__PROFILE_IS_NOT_PUBLIC", "PUBLIC_PROMPT_FINISHED")
    ELSE IF check = "NotPublicGameDetailsOrUserHasNoGames"
    THEN next_step_response("PP_PROMPT__NOT_PUBLIC_GAME_DETAILS_OR_USER_HAS_NO_GAMES",
                            "PUBLIC_PROMPT_FINISHED")
    ELSE IF check \in {"ProfileDoesNotExist", "ValueError", "Exception"}
    THEN next_step_response("PP_PROMPT__UNKNOWN_ERROR", "PUBLIC_PROMPT_FINISHED")
    ELSE Authentication(ui.steam_id, ui.persona_name)

\* the try statement of _check_public_profile
CheckPublicProfileOutcome(check, ui) ==
    IF check = "ProfileIsNotPublic"
    THEN next_step_response("PP_PROMPT__PROFILE_IS_NOT_PUBLIC", "PUBLIC_PROMPT_FINISHED")
    ELSE IF check = "NotPublicGameDetailsOrUserHasNoGames"
    THEN next_step_response("PP_PROMPT__NOT_PUBLIC_GAME_DETAILS_OR_USER_HAS_NO_GAMES",
                            "PUBLIC_PROMPT_FINISHED")
    ELSE IF check = "ProfileDoesNotExist" THEN Raised(UnknownBackendResponse)
    ELSE IF check = "ValueError" THEN Raised(UnknownBackendResponse)
    ELSE IF check = "Exception"
    THEN next_step_response("PP_PROMPT__UNKNOWN_ERROR", "PUBLIC_PROMPT_FINISHED")
    ELSE Authentication(ui.steam_id, ui.persona_name)

\* _check_public_profile: the awaited check ends and the call returns or raises
_check_public_profile ==
    /\ pc = "check_public_profile"
    /\ \E check \in ProfileChecks :
        /\ call' = [call EXCEPT !.checks = Append(@, check)]
        /\ Finish(CheckPublicProfileOutcome(check, user_info))
    /\ UNCHANGED <<user_info, auth_data, ws_queue, plugin_queue, steam_run_task>>
    /\ UNCHANGED accepted
    /\ UNCHANGED featureVars
    /\ UNCHANGED prepareVars
    /\ UNCHANGED schedulerVars

\* _handle_two_step(params, fail, finish) up to its wait
HandleTwoStep(c, params, fail, finish) ==
    IF "code" \notin DOMAIN params
    THEN /\ call' = c
         /\ Finish(next_step_response(fail, finish))
         /\ UNCHANGED ws_queue
    ELSE IF auth_data = <<>>
    THEN \* self._auth_data[1] with self._auth_data None
         /\ call' = c
         /\ Finish(Raised("TypeError"))
         /\ UNCHANGED ws_queue
    ELSE /\ InFlight < MaxQueue
         /\ PutAndWait([c EXCEPT !.fail = fail, !.finish = finish],
                       [password |-> auth_data[2], two_factor |-> params["code"][1]],
                       "two_step_wait")
         /\ UNCHANGED ret

\* (mutant) the disabled alternative of line 245: success goes on to the
\* profile-visibility check
TwoStepResult_checking_profile(result, c) ==
    IF result # NoActionRequired
    THEN /\ call' = c
         /\ Finish(next_step_response(c.fail, c.finish))
         /\ UNCHANGED auth_data
    ELSE /\ auth_data' = <<>>
         /\ call' = StoreCredentials(c)
         /\ pc' = "check_public_profile"
         /\ UNCHANGED ret

\* _handle_two_step from the handshake result on
TwoStepResult(result, c) ==
    IF result # NoActionRequired
    THEN /\ call' = c
         /\ Finish(next_step_response(c.fail, c.finish))
         /\ UNCHANGED auth_data
    ELSE /\ auth_data' = <<>>
         /\ call' = StoreCredentials(c)
         /\ Finish(Authentication(user_info.steam_id, user_info.persona_name))

_handle_two_step_result ==
    /\ pc = "two_step_wait"
    /\ plugin_queue' = IF plugin_queue = <<>> THEN <<>> ELSE Tail(plugin_queue)
    /\ TwoStepResult(_get_websocket_auth_step(QueueGet), AwaitAuthStep(call))
    /\ UNCHANGED <<user_info, ws_queue, steam_run_task>>
    /\ accepted' = (accepted \/ _get_websocket_auth_step(QueueGet) = NoActionRequired)
    /\ UNCHANGED featureVars
    /\ UNCHANGED prepareVars
    /\ UNCHANGED schedulerVars

_handle_two_step_mobile_finished ==
    /\ pc = "idle"
    /\ \E uri \in EndUris :
        /\ Dispatch(uri) = "_handle_two_step_mobile_finished"
        /\ HandleTwoStep(NewCall("_handle_two_step_mobile_finished", uri), parse_qs(uri.query),
                         "TWO_FACTOR_MOBILE_FAILED", "TWO_FACTOR_MOBILE_FINISHED")
    /\ UNCHANGED <<user_info, auth_data, plugin_queue, steam_run_task>>
    /\ UNCHANGED accepted
    /\ UNCHANGED featureVars
    /\ UNCHANGED prepareVars
    /\ UNCHANGED schedulerVars

\* the "resend" branch of _handle_two_step_email_finished up to its wait
ResendCode(c) ==
    IF auth_data = <<>>
    THEN /\ call' = c
         /\ Finish(Raised("TypeError"))
         /\ UNCHANGED ws_queue
    ELSE /\ InFlight < MaxQueue
         /\ PutAndWait(c, [password |-> auth_data[2]], "resend_wait")
         /\ UNCHANGED ret

_handle_two_step_email_finished ==
    /\ pc = "idle"
    /\ \E uri \in EndUris :
        /\ Dispatch(uri) = "_handle_two_step_email_finished"
        /\ LET params == parse_qs(uri.query)
               c == NewCall("_handle_two_step_email_finished", uri)
           IN IF "resend" \in DOMAIN params
              THEN ResendCode(c)
              ELSE HandleTwoStep(c, params, "TWO_FACTOR_MAIL_FAILED", "TWO_FACTOR_MAIL_FINISHED")
    /\ UNCHANGED <<user_info, auth_data, plugin_queue, steam_run_task>>
    /\ UNCHANGED accepted
    /\ UNCHANGED featureVars
    /\ UNCHANGED prepareVars
    /\ UNCHANGED schedulerVars

\* (mutant) the resend is answered like a code that was refused
ResendResult_failed(result, c) ==
    /\ call' = c
    /\ Finish(next_step_response("TWO_FACTOR_MAIL_FAILED", "TWO_FACTOR_MAIL_FINISHED"))
    /\ UNCHANGED auth_data

\* the "resend" branch from the handshake result on: the result is dropped
ResendResult(result, c) ==
    /\ call' = c
    /\ Finish(next_step_response("TWO_FACTOR_MAIL", "TWO_FACTOR_MAIL_FINISHED"))
    /\ UNCHANGED auth_data

_handle_two_step_email_resend_result ==
    /\ pc = "resend_wait"
    /\ plugin_queue' = IF plugin_queue = <<>> THEN <<>> ELSE Tail(plugin_queue)
    /\ ResendResult(_get_websocket_auth_step(QueueGet), AwaitAuthStep(call))
    /\ UNCHANGED <<user_info, ws_queue, steam_run_task>>
    /\ accepted' = (accepted \/ _get_websocket_auth_step(QueueGet) = NoActionRequired)
    /\ UNCHANGED featureVars
    /\ UNCHANGED prepareVars
    /\ UNCHANGED schedulerVars

_handle_public_prompt_finished ==
    /\ pc = "idle"
    /\ \E uri \in EndUris :
        /\ Dispatch(uri) = "_handle_public_prompt_finished"
        /\ LET user_wants_pp_fallback == strtobool(parse_qsl_get(uri.query, "public_profile_fallback"))
           IN /\ call' = NewCall("_handle_public_prompt_finished", uri)
              /\ IF user_wants_pp_fallback \in {"AttributeError", "ValueError"}
                 THEN Finish(Raised(user_wants_pp_fallback))
                 ELSE IF user_wants_pp_fallback = "1"
                 THEN pc' = "check_public_profile" /\ UNCHANGED ret
                 ELSE Finish(Authentication(user_info.steam_id, user_info.persona_name))
    /\ UNCHANGED <<user_info, auth_data, ws_queue, plugin_queue, steam_run_task>>
    /\ UNCHANGED accepted
    /\ UNCHANGED featureVars
    /\ UNCHANGED prepareVars
    /\ UNCHANGED schedulerVars

----------------------------------------------------------------------------
(* authenticate and the stored-credential resume *)

\* authenticate(None)
authenticate ==
    /\ pc = "idle"
    /\ steam_run_task' = RunningTask
    /\ call' = NewCall("authenticate", Uri(None, <<>>))
    /\ Finish(next_step_response("LOGIN", "LOGIN_FINISHED"))
    /\ UNCHANGED <<user_info, auth_data, ws_queue, plugin_queue>>
    /\ accepted' = FALSE
    /\ UNCHANGED featureVars
    /\ UNCHANGED prepareVars
    /\ UNCHANGED schedulerVars

\* _authenticate_with_stored_credentials up to asyncio.wait
_authenticate_with_stored_credentials ==
    /\ pc = "idle"
    /\ \E stored_credentials \in StoredCredentials :
        user_info' = from_dict(user_info, stored_credentials)
    /\ steam_run_task' = RunningTask
    /\ call' = NewCall("_authenticate_with_stored_credentials", Uri(None, <<>>))
    /\ pc' = "resume_wait"
    /\ UNCHANGED <<auth_data, ws_queue, plugin_queue, ret>>
    /\ accepted' = FALSE
    /\ UNCHANGED featureVars
    /\ UNCHANGED prepareVars
    /\ UNCHANGED schedulerVars

\* _cancel_task(task): the task afterwards, and what `await task` raises out of the
\* suppress(CancelledError) block (None: nothing)
CancelTaskSuppressing(task, suppressed) ==
    LET after == IF task.state = "running"
                 THEN [task EXCEPT !.state = "cancelled", !.error = "CancelledError"]
                 ELSE task
    IN [task |-> after,
        raised |-> IF after.error \in suppressed THEN None ELSE after.error]

\* (mutant) without suppress(asyncio.CancelledError)
cancel_task_unsuppressed(task) == CancelTaskSuppressing(task, {None})

_cancel_task(task) == CancelTaskSuppressing(task, {None, "CancelledError"})

\* the tasks asyncio.wait reports done when it returns
WaitDone ==
    (IF user_info.initialized THEN {"user_info_ready_task"} ELSE {})
    \cup (IF steam_run_task.state # "running" THEN {"steam_run_task"} ELSE {})

\* (mutant) a run loop that ended is always reported as a silent disconnect
ResumeOutcome_silent_disconnect(done, task, ui) ==
    IF "user_info_ready_task" \in done
    THEN [outcome |-> Authentication(ui.steam_id, ui.persona_name), task |-> task,
          store |-> TRUE, cancelled |-> FALSE]
    ELSE IF "steam_run_task" \in done
    THEN [outcome |-> Raised(UnknownError), task |-> task, store |-> FALSE, cancelled |-> FALSE]
    ELSE LET c == _cancel_task(task)
         IN [outcome |-> IF c.raised # None THEN Raised(c.raised) ELSE Raised(BackendTimeout),
             task |-> c.task, store |-> FALSE, cancelled |-> TRUE]

\* (mutant) the identity being ready, the credentials are not persisted
ResumeOutcome_not_persisting(done, task, ui) ==
    IF "user_info_ready_task" \in done
    THEN [outcome |-> Authentication(ui.steam_id, ui.persona_name), task |-> task,
          store |-> FALSE, cancelled |-> FALSE]
    ELSE IF "steam_run_task" \in done
    THEN [outcome |-> IF task.error # None THEN Raised(task.error) ELSE Raised(UnknownError),
          task |-> task, store |-> FALSE, cancelled |-> FALSE]
    ELSE LET c == _cancel_task(task)
         IN [outcome |-> IF c.raised # None THEN Raised(c.raised) ELSE Raised(BackendTimeout),
             task |-> c.task, store |-> FALSE, cancelled |-> TRUE]

\* what the branches after asyncio.wait make of the done set:
\* the call's outcome, the run-loop task afterwards, whether credentials are stored
ResumeOutcome(done, task, ui) ==
    IF "user_info_ready_task" \in done
    THEN [outcome |-> Authentication(ui.steam_id, ui.persona_name), task |-> task,
          store |-> TRUE, cancelled |-> FALSE]
    ELSE IF "steam_run_task" \in done
    THEN [outcome |-> IF task.error # None THEN Raised(task.error) ELSE Raised(UnknownError),
          task |-> task, store |-> FALSE, cancelled |-> FALSE]
    ELSE LET c == _cancel_task(task)
         IN [outcome |-> IF c.raised # None THEN Raised(c.raised) ELSE Raised(BackendTimeout),
             task |-> c.task, store |-> FALSE, cancelled |-> TRUE]

\* asyncio.wait returns: a task has finished, or (none has) the timeout has passed
_authenticate_with_stored_credentials_woken ==
    /\ pc = "resume_wait"
    /\ LET r == ResumeOutcome(WaitDone, steam_run_task, user_info)
       IN /\ steam_run_task' = r.task
          /\ call' = LET c == [call EXCEPT !.cancelled = r.cancelled, !.done = WaitDone]
                     IN IF r.store THEN StoreCredentials(c) ELSE c
          /\ Finish(r.outcome)
    /\ UNCHANGED <<user_info, auth_data, ws_queue, plugin_queue>>
    /\ UNCHANGED accepted
    /\ UNCHANGED featureVars
    /\ UNCHANGED prepareVars
    /\ UNCHANGED schedulerVars

----------------------------------------------------------------------------
(* The protocol session (WebSocketClient.run and what it drives) *)

RunLoopErrors == {"ConnectionClosedError", "BackendNotAvailable"}

\* the session answers the oldest credential submission with a handshake result
SessionHandshakeResult ==
    /\ steam_run_task.state = "running"
    /\ ws_queue # <<>>
    /\ ws_queue' = Tail(ws_queue)
    /\ \E r \in UserActionRequired :
        plugin_queue' = Append(plugin_queue, [auth_result |-> r])
    /\ UNCHANGED <<user_info, auth_data, steam_run_task, pc, call, ret, accepted>>
    /\ UNCHANGED featureVars
    /\ UNCHANGED prepareVars
    /\ UNCHANGED schedulerVars

\* an identity message fills the Identity Record and fires its readiness signal
SessionIdentity ==
    /\ steam_run_task.state = "running"
    /\ \E id \in SteamIds, name \in PersonaNames :
        user_info' = [user_info EXCEPT !.steam_id = id, !.persona_name = name,
                                       !.changed = TRUE, !.initialized = TRUE]
    /\ UNCHANGED <<steam_run_task>>
    /\ UNCHANGED authVars
    /\ UNCHANGED featureVars
    /\ UNCHANGED prepareVars
    /\ UNCHANGED schedulerVars

\* the run loop returns (error None) or raises
SessionRunEnds ==
    /\ steam_run_task.state = "running"
    /\ \E e \in RunLoopErrors \cup {None} :
        steam_run_task' = [state |-> "done", error |-> e]
    /\ UNCHANGED <<user_info>>
    /\ UNCHANGED authVars
    /\ UNCHANGED featureVars
    /\ UNCHANGED prepareVars
    /\ UNCHANGED schedulerVars

\* the catalog arrives: the games cache becomes ready
SessionGamesReady ==
    /\ steam_run_task.state = "running"
    /\ ~games_ready
    /\ games_ready' = TRUE
    /\ UNCHANGED <<user_info, steam_run_task, owned_games_parsed, feature>>
    /\ UNCHANGED authVars
    /\ UNCHANGED schedulerVars
    /\ UNCHANGED prepareVars

----------------------------------------------------------------------------
(* features implementation *)

\* what one feature query method did: the account id it found on entry, how it
\* ended, whether it waited on or read a cache, whether it issued a protocol request
Did(method, outcome, cache, request) ==
    [method |-> method, steam_id |-> user_info.steam_id, outcome |-> outcome,
     cache |-> cache, request |-> request]

\* `if self._user_info_cache.steam_id is None: raise AuthenticationRequired()`
RequireAuthentication(method, ui) ==
    /\ ui.steam_id = None
    /\ feature' = Did(method, AuthenticationRequired, FALSE, FALSE)

FeatureFrame ==
    /\ UNCHANGED <<user_info, steam_run_task, games_ready>>
    /\ UNCHANGED authVars
    /\ UNCHANGED <<update_owned_games_task, add_game_log, ticked, shut>>
    /\ UNCHANGED prepareVars

get_owned_games ==
    /\ \/ /\ RequireAuthentication("get_owned_games", user_info)
          /\ UNCHANGED <<owned_games_parsed, games_cache, enumerated, persistent>>
       \/ /\ user_info.steam_id # None
          /\ IF ~games_ready
             THEN \* wait_ready(GAME_CACHE_IS_READY_TIMEOUT) times out
                  /\ feature' = Did("get_owned_games", BackendTimeout, TRUE, FALSE)
                  /\ UNCHANGED <<owned_games_parsed, games_cache, enumerated, persistent>>
             ELSE \* the gate is opened; the enumeration ends, or raises KeyError /
                  \* ValueError; either way the finally clause sets _owned_games_parsed
                  /\ games_cache' = [games_cache EXCEPT !.add_game_lever = TRUE]
                  /\ owned_games_parsed' = TRUE
                  /\ \E outcome \in {"returned", UnknownBackendResponse} :
                        /\ feature' = Did("get_owned_games", outcome, TRUE, FALSE)
                        /\ enumerated' = (enumerated \/ outcome = "returned")
                        /\ persistent' = IF outcome = "returned"
                                         THEN [games |-> <<dump(games_cache)>>, modified |-> TRUE]
                                         ELSE persistent
    /\ FeatureFrame

get_subscriptions ==
    /\ IF ~owned_games_parsed /\ ~games_ready
       THEN feature' = Did("get_subscriptions", BackendTimeout, TRUE, FALSE)
       ELSE feature' = Did("get_subscriptions", "returned", TRUE, FALSE)
    /\ UNCHANGED <<owned_games_parsed, games_cache, enumerated, persistent>>
    /\ FeatureFrame

get_subscription_games ==
    /\ feature' = Did("get_subscription_games", "returned", TRUE, FALSE)
    /\ UNCHANGED <<owned_games_parsed, games_cache, enumerated, persistent>>
    /\ FeatureFrame

prepare_achievements_context ==
    /\ \/ RequireAuthentication("prepare_achievements_context", user_info)
       \/ /\ user_info.steam_id # None
          /\ \E outcome \in {"returned", BackendTimeout} :
                feature' = Did("prepare_achievements_context", outcome, TRUE, TRUE)
    /\ UNCHANGED <<owned_games_parsed, games_cache, enumerated, persistent>>
    /\ FeatureFrame

prepare_game_times_context ==
    /\ \/ RequireAuthentication("prepare_game_times_context", user_info)
       \/ /\ user_info.steam_id # None
          /\ \E outcome \in {"returned", BackendTimeout} :
                feature' = Did("prepare_game_times_context", outcome, TRUE, TRUE)
    /\ UNCHANGED <<owned_games_parsed, games_cache, enumerated, persistent>>
    /\ FeatureFrame

prepare_game_library_settings_context ==
    /\ \/ RequireAuthentication("prepare_game_library_settings_context", user_info)
       \/ /\ user_info.steam_id # None
          /\ feature' = Did("prepare_game_library_settings_context", "returned", FALSE, TRUE)
    /\ UNCHANGED <<owned_games_parsed, games_cache, enumerated, persistent>>
    /\ FeatureFrame

get_friends ==
    /\ \/ RequireAuthentication("get_friends", user_info)
       \/ /\ user_info.steam_id # None
          /\ feature' = Did("get_friends", "returned", FALSE, TRUE)
    /\ UNCHANGED <<owned_games_parsed, games_cache, enumerated, persistent>>
    /\ FeatureFrame

prepare_user_presence_context ==
    /\ feature' = Did("prepare_user_presence_context", "returned", FALSE, TRUE)
    /\ UNCHANGED <<owned_games_parsed, games_cache, enumerated, persistent>>
    /\ FeatureFrame

----------------------------------------------------------------------------
(* The catalog cache (GamesCache) *)

MaxGames == 120          \* most entries the session adds to the catalog
AddSizes == {50, 70}      \* how many entries arrive together

\* the session adds k entries to the catalog; with the gate open they enter the
\* "newly added" queue
SessionAddsGames ==
    /\ ~shut.called
    /\ steam_run_task.state = "running"
    /\ games_cache.add_game_lever
    /\ \E k \in AddSizes :
        /\ games_cache.added + k <= MaxGames
        /\ games_cache' =
             [games_cache EXCEPT
                !.added = @ + k,
                !.new_games = @ \o [j \in 1..k |-> games_cache.added + j]]
    /\ UNCHANGED <<user_info, steam_run_task, enumerated, update_owned_games_task,
                   add_game_log, persistent, ticked, shut>>
    /\ UNCHANGED authVars
    /\ UNCHANGED featureVars
    /\ UNCHANGED prepareVars

\* GamesCache.consume_added_games(): the queue is handed over and emptied
consume_added_games(cache) ==
    [new_games |-> cache.new_games, cache |-> [cache EXCEPT !.new_games = <<>>]]

----------------------------------------------------------------------------
(* periodic tasks *)

\* asyncio.Task.done()
done(task) == task.state \in {"done", "cancelled"}

\* (mutant) the pause is taken before every 50 entries instead of after
PauseAfter_first(i) == i % 50 = 0

\* `if i % 50 == 49`: the loop sleeps after the entry of (0-based) index i
PauseAfter(i) == i % 50 = 49

\* The host's add_game may raise: on no entry of this run of the loop (-1), or on
\* the first or the second entry the loop comes to from index i
NoRaise == -1
AddGameRaises(i) == {NoRaise, i, i + 1}

\* The for loop of _update_owned_games from index i on, up to its next suspension:
\* each entry is passed to add_game (appended to log); the loop stops at a sleep, at
\* the end of new_games, or with the error add_game raises on the entry of index
\* `raises`
RECURSIVE ForwardFrom(_, _, _, _)
ForwardFrom(new_games, i, log, raises) ==
    IF i >= Len(new_games)
    THEN [i |-> i, log |-> log, sleeping |-> FALSE, error |-> None]
    ELSE IF i = raises
    THEN [i |-> i, log |-> log, sleeping |-> FALSE, error |-> "Exception"]
    ELSE IF PauseAfter(i)
         THEN [i |-> i + 1, log |-> Append(log, new_games[i + 1]), sleeping |-> TRUE,
               error |-> None]
         ELSE ForwardFrom(new_games, i + 1, Append(log, new_games[i + 1]), raises)

\* the task after the loop has run on from its index i
Forwarded(task, f) ==
    IF f.sleeping
    THEN [task EXCEPT !.at = "sleep", !.i = f.i, !.pauses = Append(@, f.i)]
    ELSE [task EXCEPT !.state = "done", !.i = f.i, !.error = f.error]

\* the asyncio.sleep(0) task of __init__ ends
sleep_done ==
    /\ ~shut.called
    /\ update_owned_games_task.coro = "sleep"
    /\ update_owned_games_task.state = "running"
    /\ update_owned_games_task' = [update_owned_games_task EXCEPT !.state = "done"]
    /\ UNCHANGED <<user_info, steam_run_task, games_cache, enumerated, add_game_log,
                   persistent, ticked, shut>>
    /\ UNCHANGED authVars
    /\ UNCHANGED featureVars
    /\ UNCHANGED prepareVars

\* (mutant) without `if not new_games: return`
UpdateOwnedGamesStart_always_persisting(task, cache, store, log, raises) ==
    LET consumed == consume_added_games(cache)
        f == ForwardFrom(consumed.new_games, 0, log, raises)
    IN [task |-> Forwarded([task EXCEPT !.new_games = consumed.new_games], f),
        cache |-> consumed.cache,
        store |-> [games |-> <<dump(consumed.cache)>>, modified |-> TRUE],
        log |-> f.log]

\* _update_owned_games from its start to its first suspension or its end
UpdateOwnedGamesStart(task, cache, store, log, raises) ==
    LET consumed == consume_added_games(cache)
        f == ForwardFrom(consumed.new_games, 0, log, raises)
    IN IF consumed.new_games = <<>>
       THEN [task |-> [task EXCEPT !.state = "done"], cache |-> consumed.cache,
             store |-> store, log |-> log]
       ELSE [task |-> Forwarded([task EXCEPT !.new_games = consumed.new_games], f),
             cache |-> consumed.cache,
             store |-> [games |-> <<dump(consumed.cache)>>, modified |-> TRUE],
             log |-> f.log]

\* the task created by tick runs
_update_owned_games ==
    /\ update_owned_games_task.coro = "_update_owned_games"
    /\ update_owned_games_task.state = "running"
    /\ update_owned_games_task.at = "start"
    /\ \E raises \in AddGameRaises(0) :
        LET r == UpdateOwnedGamesStart(update_owned_games_task, games_cache, persistent,
                                       add_game_log, raises)
        IN /\ update_owned_games_task' = r.task
           /\ games_cache' = r.cache
           /\ persistent' = r.store
           /\ add_game_log' = r.log
    /\ UNCHANGED <<user_info, steam_run_task, enumerated, ticked, shut>>
    /\ UNCHANGED authVars
    /\ UNCHANGED featureVars
    /\ UNCHANGED prepareVars

\* asyncio.sleep(5) is over: the loop goes on
_update_owned_games_after_sleep ==
    /\ update_owned_games_task.coro = "_update_owned_games"
    /\ update_owned_games_task.state = "running"
    /\ update_owned_games_task.at = "sleep"
    /\ \E raises \in AddGameRaises(update_owned_games_task.i) :
        LET f == ForwardFrom(update_owned_games_task.new_games, update_owned_games_task.i,
                             add_game_log, raises)
        IN /\ update_owned_games_task' = Forwarded(update_owned_games_task, f)
           /\ add_game_log' = f.log
    /\ UNCHANGED <<user_info, steam_run_task, games_cache, enumerated, persistent,
                   ticked, shut>>
    /\ UNCHANGED authVars
    /\ UNCHANGED featureVars
    /\ UNCHANGED prepareVars

\* asyncio.create_task(self._update_owned_games())
UpdateOwnedGamesTask ==
    [coro |-> "_update_owned_games", state |-> "running", error |-> None, at |-> "start",
     new_games |-> <<>>, i |-> 0, pauses |-> <<>>]

\* (mutant) tick without the `_update_owned_games_task.done()` test
TickStarts_ignoring_done(task, parsed) == parsed

\* the first condition of tick
TickStarts(task, parsed) == done(task) /\ parsed

\* (mutant) the credentials are stored on every tick
TickCredentials_unconditional(ui) ==
    [stores |-> 1, ui |-> [ui EXCEPT !.changed = FALSE]]

\* UserInfoCache.changed: the flag, which the read for persisting clears
changed(ui) == [value |-> ui.changed, ui |-> [ui EXCEPT !.changed = FALSE]]

\* the second statement of tick: if the flag is set, _store_credentials is called
TickCredentials(ui) ==
    LET flag == changed(ui)
    IN [stores |-> IF flag.value THEN 1 ELSE 0, ui |-> flag.ui]

tick ==
    /\ ~shut.called
    /\ LET starts == TickStarts(update_owned_games_task, owned_games_parsed)
           stored == TickCredentials(user_info)
       IN /\ update_owned_games_task' =
                IF starts THEN UpdateOwnedGamesTask ELSE update_owned_games_task
          /\ user_info' = stored.ui
          /\ ticked' = [stores |-> stored.stores]
    /\ UNCHANGED <<steam_run_task, games_cache, enumerated, add_game_log, persistent, shut>>
    /\ UNCHANGED authVars
    /\ UNCHANGED featureVars
    /\ UNCHANGED prepareVars

----------------------------------------------------------------------------
(* shutdown *)

\* shutdown: the two _cancel_task calls in turn; an error out of the first, or the
\* AttributeError of a _steam_run_task that no authenticate call has set, ends it
shutdown ==
    /\ ~shut.called
    /\ LET first == _cancel_task(update_owned_games_task)
       IN /\ update_owned_games_task' = first.task
          /\ IF first.raised # None
             THEN /\ shut' = [called |-> TRUE, raised |-> first.raised]
                  /\ UNCHANGED steam_run_task
             ELSE IF steam_run_task.state = "unset"
             THEN /\ shut' = [called |-> TRUE, raised |-> "AttributeError"]
                  /\ UNCHANGED steam_run_task
             ELSE LET second == _cancel_task(steam_run_task)
                  IN /\ steam_run_task' = second.task
                     /\ shut' = [called |-> TRUE, raised |-> second.raised]
    /\ UNCHANGED <<user_info, games_cache, enumerated, add_game_log, persistent, ticked>>
    /\ UNCHANGED authVars
    /\ UNCHANGED featureVars
    /\ UNCHANGED prepareVars

----------------------------------------------------------------------------
(* prepare_achievements_context and prepare_game_times_context, overlapping *)

\* the cache each method refreshes and waits on
CacheOf(method) ==
    IF method = "prepare_achievements_context" THEN "_stats_cache" ELSE "_times_cache"

\* refresh_game_stats / refresh_game_times: the import starts, the cache is no
\* longer ready
StartImport(cache) ==
    [import_in_progress |-> TRUE, ready |-> FALSE, in_flight |-> cache.in_flight + 1]

\* (mutant) the refresh request is issued whatever the flag says
PrepareRequests_unguarded(cache) == TRUE

\* `if not self._stats_cache.import_in_progress` (and the same on _times_cache)
PrepareRequests(cache) == ~cache.import_in_progress

\* prepare_*_context up to its wait_ready (or to the AuthenticationRequired it raises)
PrepareContext(p, method) ==
    /\ preparing[p].at = "idle"
    /\ LET c == CacheOf(method)
           requests == PrepareRequests(caches[c])
       IN IF user_info.steam_id = None
          THEN /\ preparing' = [preparing EXCEPT ![p] =
                    [method |-> method, cache |-> c, at |-> "idle", requested |-> FALSE,
                     outcome |-> AuthenticationRequired]]
               /\ UNCHANGED caches
          ELSE /\ preparing' = [preparing EXCEPT ![p] =
                    [method |-> method, cache |-> c, at |-> "wait_ready",
                     requested |-> requests, outcome |-> None]]
               /\ caches' = IF requests THEN [caches EXCEPT ![c] = StartImport(@)]
                                        ELSE caches
    /\ UNCHANGED <<user_info, steam_run_task>>
    /\ UNCHANGED authVars
    /\ UNCHANGED <<games_ready, owned_games_parsed, feature>>
    /\ UNCHANGED schedulerVars

prepare_achievements_context_overlapping ==
    \E p \in Callers : PrepareContext(p, "prepare_achievements_context")

prepare_game_times_context_overlapping ==
    \E p \in Callers : PrepareContext(p, "prepare_game_times_context")

\* the session has received the last response of the import: the flag is cleared,
\* the cache ready, and every caller waiting on it released
SessionImportDone ==
    /\ steam_run_task.state = "running"
    /\ \E c \in Caches :
        /\ caches[c].import_in_progress
        /\ caches' = [caches EXCEPT ![c] =
                        [import_in_progress |-> FALSE, ready |-> TRUE, in_flight |-> 0]]
        /\ preparing' = [p \in Callers |->
                          IF preparing[p].at = "wait_ready" /\ preparing[p].cache = c
                          THEN [preparing[p] EXCEPT !.at = "released"]
                          ELSE preparing[p]]
    /\ UNCHANGED <<user_info, steam_run_task>>
    /\ UNCHANGED authVars
    /\ UNCHANGED <<games_ready, owned_games_parsed, feature>>
    /\ UNCHANGED schedulerVars

\* wait_ready(10 * 60) ends: the caller was released, or the ten minutes have passed
wait_ready ==
    /\ \E p \in Callers :
        /\ preparing[p].at \in {"wait_ready", "released"}
        /\ preparing' = [preparing EXCEPT ![p] =
                [@ EXCEPT !.at = "idle",
                          !.outcome = IF preparing[p].at = "released"
                                      THEN "returned" ELSE BackendTimeout]]
    /\ UNCHANGED <<user_info, steam_run_task, caches>>
    /\ UNCHANGED authVars
    /\ UNCHANGED <<games_ready, owned_games_parsed, feature>>
    /\ UNCHANGED schedulerVars

----------------------------------------------------------------------------
(* Specification *)

\* the host drives a login or a resume
Authenticating ==
    \/ authenticate
    \/ _authenticate_with_stored_credentials
    \/ _authenticate_with_stored_credentials_woken

pass_login_credentials ==
    \/ pass_login_credentials_unmatched
    \/ _handle_login_finished
    \/ _handle_login_finished_result
    \/ _check_public_profile
    \/ _handle_two_step_mobile_finished
    \/ _handle_two_step_email_finished
    \/ _handle_two_step_result
    \/ _handle_two_step_email_resend_result
    \/ _handle_public_prompt_finished

Session ==
    \/ SessionIdentity
    \/ SessionRunEnds

Features ==
    \/ get_owned_games
    \/ get_subscriptions
    \/ get_subscription_games
    \/ prepare_achievements_context
    \/ prepare_game_times_context
    \/ prepare_game_library_settings_context
    \/ get_friends
    \/ prepare_user_presence_context

\* the authentication flows against a protocol session whose run loop stays up
Next == Authenticating \/ pass_login_credentials \/ SessionHandshakeResult \/ SessionIdentity

Spec == Init /\ [][Next]_vars

\* a session being started or resumed, its run loop ending or not, and the feature
\* query methods called on it
NextSession == Authenticating \/ Session \/ SessionGamesReady \/ Features

SpecSession == Init /\ [][NextSession]_vars

\* the periodic tick and the forwarding task on a session that is started or resumed
\* and whose catalog grows, up to shutdown
Scheduler ==
    \/ tick
    \/ sleep_done
    \/ _update_owned_games
    \/ _update_owned_games_after_sleep

NextScheduler ==
    \/ authenticate
    \/ Session
    \/ SessionGamesReady
    \/ SessionAddsGames
    \/ get_owned_games
    \/ Scheduler
    \/ shutdown

SpecScheduler == Init /\ [][NextScheduler]_vars

\* the same, on sessions that are resumed from stored credentials as well
NextShutdown ==
    \/ Authenticating
    \/ Session
    \/ SessionGamesReady
    \/ SessionAddsGames
    \/ get_owned_games
    \/ Scheduler
    \/ shutdown

SpecShutdown == Init /\ [][NextShutdown]_vars

\* overlapping prepare_*_context calls on a started session
NextPrepare ==
    \/ authenticate
    \/ SessionIdentity
    \/ prepare_achievements_context_overlapping
    \/ prepare_game_times_context_overlapping
    \/ SessionImportDone
    \/ wait_ready

SpecPrepare == Init /\ [][NextPrepare]_vars

\* the scheduler on a session whose host keeps calling tick and never calls
\* shutdown; the event loop runs every task that can run
NextForwarding ==
    \/ authenticate
    \/ SessionIdentity
    \/ SessionGamesReady
    \/ SessionAddsGames
    \/ get_owned_games
    \/ Scheduler

SpecForwarding ==
    /\ Init /\ [][NextForwarding]_vars
    /\ WF_vars(tick)
    /\ WF_vars(sleep_done)
    /\ WF_vars(_update_owned_games)
    /\ WF_vars(_update_owned_games_after_sleep)

----------------------------------------------------------------------------
(* Vocabulary of the properties *)

\* the payload signals "resend code" / carries a code
IsResend(uri) == "resend" \in DOMAIN parse_qs(uri.query)
CarriesCode(uri) == "code" \in DOMAIN parse_qs(uri.query)

\* the call c was made in AwaitingTwoFactor{Email} / AwaitingTwoFactor{Mobile} with
\* the completion payload of that channel
InTwoFactorEmail(c) ==
    c.handler = "_handle_two_step_email_finished" /\ c.from = "AwaitingTwoFactorEmail"
InTwoFactorMobile(c) ==
    c.handler = "_handle_two_step_mobile_finished" /\ c.from = "AwaitingTwoFactorMobile"

\* this step is a step of the authentication call call' (every such step adds to
\* the call's record; the session's steps leave it alone)
HandlerStep == call' # call

----------------------------------------------------------------------------
(* C1 *)

\* C1: every feature query method invoked while the Identity Record holds no account
\* id raises AuthenticationRequired, before it waits on or reads a cache and before
\* it issues a protocol request.
C1_FeatureMethodsRequireIdentity ==
    (feature.method # None /\ feature.steam_id = None)
        => /\ feature.outcome = AuthenticationRequired
           /\ ~feature.cache
           /\ ~feature.request

----------------------------------------------------------------------------
(* C2 *)

\* what the claim says a resend does, step by step: the submission and then the
\* return of the same step descriptor
ResendEffect ==
    /\ auth_data' = auth_data
    /\ user_info' = user_info
    /\ pc = "idle" =>
        /\ pc' = "resend_wait"
        /\ ws_queue' = Append(ws_queue, [password |-> auth_data[2]])
        /\ call'.puts = <<[password |-> auth_data[2]]>>
        /\ plugin_queue' = plugin_queue
    /\ pc # "idle" =>
        /\ pc' = "idle"
        /\ ret' \in {MailStep, MobileStep} /\ ControllerState(ret') = call'.from
        /\ call'.waits = 1
        /\ call'.puts = call.puts
        /\ ws_queue' = ws_queue
        /\ plugin_queue' = IF plugin_queue = <<>> THEN <<>> ELSE Tail(plugin_queue)

\* C2, as claimed: on either channel X a "resend code" payload in AwaitingTwoFactor{X}
\* re-submits the stored password alone, consumes one handshake result, returns the
\* step descriptor of AwaitingTwoFactor{X} and leaves the pending password and the
\* Identity Record unchanged.
C2_ResendOnEitherChannel ==
    [][(HandlerStep /\ IsResend(call'.uri)
            /\ (InTwoFactorEmail(call') \/ InTwoFactorMobile(call')))
        => ResendEffect]_vars

\* C2, amended: the Email channel does all of that (its one bounded wait for a
\* handshake result ends with a result or with the timeout, and what it yields is
\* dropped); the Mobile channel has no resend: a payload without a code submits
\* nothing, waits for nothing and returns the mobile "two-factor failed" descriptor,
\* the pending password and the Identity Record unchanged.
C2_ResendOnEmailOnly ==
    [][/\ (HandlerStep /\ IsResend(call'.uri) /\ InTwoFactorEmail(call')) => ResendEffect
       /\ (HandlerStep /\ ~CarriesCode(call'.uri) /\ InTwoFactorMobile(call'))
            => /\ pc' = "idle"
               /\ ret' = MobileFailedStep
               /\ call'.puts = <<>> /\ call'.waits = 0
               /\ UNCHANGED <<auth_data, user_info, ws_queue, plugin_queue>>]_vars

\* a resend in AwaitingTwoFactor{Email} has returned
C2_Witness ==
    /\ pc = "idle"
    /\ InTwoFactorEmail(call) /\ IsResend(call.uri)
    /\ call.waits = 1 /\ Len(call.puts) = 1
    /\ ret = MailStep

----------------------------------------------------------------------------
(* C3 *)

\* C3: after a login or two-factor step has returned a terminal outcome
\* (Authentication, "login failed" or a "two-factor failed" descriptor) the pending
\* password is empty.
C3_PendingPasswordCleared ==
    (/\ pc = "idle"
     /\ call.handler \in {"_handle_login_finished", "_handle_two_step_mobile_finished",
                          "_handle_two_step_email_finished"}
     /\ \/ ret.kind = "Authentication"
        \/ ret \in {LoginFailedStep, MailFailedStep, MobileFailedStep})
        => auth_data = <<>>

----------------------------------------------------------------------------
(* C4 *)

\* C4: in the stored-credential resume, when only the run loop has ended by the time
\* the race returns, the call raises exactly the run loop's error, or UnknownError if
\* the run loop ended without one; it returns no Authentication and persists nothing.
C4_RunLoopEndedFirst ==
    (pc = "idle" /\ call.handler = "_authenticate_with_stored_credentials"
        /\ call.done = {"steam_run_task"})
        => /\ ret = IF steam_run_task.error # None
                    THEN Raised(steam_run_task.error)
                    ELSE Raised(UnknownError)
           /\ call.stores = 0
           /\ ~call.cancelled

\* a resume whose run loop raised first has ended
C4_Witness ==
    /\ pc = "idle" /\ call.handler = "_authenticate_with_stored_credentials"
    /\ call.done = {"steam_run_task"}
    /\ steam_run_task.error = "ConnectionClosedError"
    /\ ret = Raised("ConnectionClosedError")

----------------------------------------------------------------------------
(* C5 *)

\* C5: in the stored-credential resume, when neither the identity is ready nor the run
\* loop has ended as the race returns, the run-loop task is cancelled, its
\* cancellation swallowed, BackendTimeout raised, and no credentials are persisted.
C5_ResumeTimeout ==
    (pc = "idle" /\ call.handler = "_authenticate_with_stored_credentials"
        /\ call.done = {})
        => /\ ret = Raised(BackendTimeout)
           /\ call.cancelled
           /\ steam_run_task.state = "cancelled"
           /\ call.stores = 0

\* a resume has timed out
C5_Witness ==
    /\ pc = "idle" /\ call.handler = "_authenticate_with_stored_credentials"
    /\ call.done = {}
    /\ call.cancelled
    /\ ret = Raised(BackendTimeout)

----------------------------------------------------------------------------
(* C6 *)

\* C6: in the stored-credential resume, when the identity is ready and the run loop
\* still running as the race returns, the call persists the credentials once and
\* returns Authentication with the Identity Record's account id and display name;
\* the run-loop task is left as it is.
C6_IdentityReadyFirst ==
    [][(HandlerStep /\ pc = "resume_wait"
            /\ user_info.initialized /\ steam_run_task.state = "running")
        => /\ pc' = "idle"
           /\ ret' = Authentication(user_info.steam_id, user_info.persona_name)
           /\ call'.stores = 1
           /\ ~call'.cancelled
           /\ steam_run_task' = steam_run_task]_vars

\* a resume has succeeded with the run loop still running
C6_Witness ==
    /\ pc = "idle" /\ call.handler = "_authenticate_with_stored_credentials"
    /\ call.done = {"user_info_ready_task"}
    /\ ret.kind = "Authentication"
    /\ call.stores = 1
    /\ steam_run_task.state = "running"

----------------------------------------------------------------------------
(* C7 *)

\* C7: when the profile-visibility check raises ProfileDoesNotExist or ValueError, the
\* pass_login_credentials call raises UnknownBackendResponse, on the login path and
\* on the public-prompt path alike.
C7_MissingProfileIsUnknownBackendResponse ==
    (pc = "idle" /\ call.checks # <<>>
        /\ call.checks[Len(call.checks)] \in {"ProfileDoesNotExist", "ValueError"})
        => /\ call.handler \in {"_handle_login_finished", "_handle_public_prompt_finished"}
           /\ ret = Raised(UnknownBackendResponse)

\* the check re-run from the public-profile decision step found no profile
C7_Witness ==
    /\ pc = "idle" /\ call.handler = "_handle_public_prompt_finished"
    /\ call.checks = <<"ProfileDoesNotExist">>
    /\ ret = Raised(UnknownBackendResponse)

----------------------------------------------------------------------------
(* C8 *)

\* C8: a login from AwaitingCredentials with username and password, answered by
\* NoActionRequired and found public by the profile check, returns Authentication
\* with the Identity Record's account id and display name, has put exactly one
\* {password} payload on the outbound queue, and leaves the submitted username in
\* the Identity Record.
C8_LoginSucceeds ==
    [][(HandlerStep /\ pc = "check_public_profile"
            /\ call'.handler = "_handle_login_finished"
            /\ call'.from = "AwaitingCredentials"
            /\ call'.got = NoActionRequired
            /\ call'.checks = <<"public">>)
        => LET params == parse_qs(call'.uri.query)
           IN /\ pc' = "idle"
              /\ ret' = Authentication(user_info.steam_id, user_info.persona_name)
              /\ call'.puts = <<[password |-> params["password"][1]]>>
              /\ call'.waits = 1
              /\ user_info'.account_username = params["username"][1]]_vars

\* such a login has returned Authentication
C8_Witness ==
    /\ pc = "idle" /\ call.handler = "_handle_login_finished"
    /\ call.from = "AwaitingCredentials"
    /\ call.got = NoActionRequired
    /\ call.checks = <<"public">>
    /\ ret.kind = "Authentication"
    /\ user_info.account_username = "alice"

----------------------------------------------------------------------------
(* C9 *)

\* this step ends a bounded wait for a handshake result by its timeout
HandshakeWaitTimesOut ==
    /\ HandlerStep
    /\ pc \in {"login_wait", "two_step_wait", "resend_wait"}
    /\ call'.timed_out

\* C9: a handshake-result wait that times out is acted on as NoActionRequired (login:
\* the pending password is cleared, the credentials stored and the profile check is
\* next; two-factor code: Authentication; resend: the same step again), never with a
\* failure descriptor or an error; the other bounded wait of the authentication
\* flows, the race of the resume, surfaces its timeout as BackendTimeout.
C9_HandshakeTimeoutIsNoAction ==
    [][/\ (HandshakeWaitTimesOut /\ pc = "login_wait")
            => /\ auth_data' = <<>>
               /\ call'.stores = 1
               /\ pc' = "check_public_profile"
               /\ ret' = ret
       /\ (HandshakeWaitTimesOut /\ pc = "two_step_wait")
            => /\ auth_data' = <<>>
               /\ pc' = "idle"
               /\ ret' = Authentication(user_info.steam_id, user_info.persona_name)
       /\ (HandshakeWaitTimesOut /\ pc = "resend_wait")
            => /\ pc' = "idle"
               /\ ret' = MailStep
       /\ (HandlerStep /\ pc = "resume_wait" /\ WaitDone = {})
            => /\ pc' = "idle"
               /\ ret' = Raised(BackendTimeout)]_vars

\* a login went on to the profile check after its wait had timed out
C9_Witness ==
    /\ pc = "check_public_profile" /\ call.handler = "_handle_login_finished"
    /\ call.timed_out /\ call.got = None
    /\ auth_data = <<>>

----------------------------------------------------------------------------
(* C10 *)

\* the descriptor of the refused code on the channel of the call
TwoFactorFailedStep(c) ==
    IF InTwoFactorMobile(c) THEN MobileFailedStep ELSE MailFailedStep

----------------------------------------------------------------------------
(* C11 *)

\* the call c is a call of pass_login_credentials (authenticate carries no payload)
IsPassLoginCredentials(c) == c.uri.path # None

\* C11: every call of pass_login_credentials, whatever the payload and the controller
\* state, ends with an Authentication, a next-step descriptor or a raised
\* UnknownBackendResponse; it never returns nothing.
C11_EveryCallHasAResult ==
    (pc = "idle" /\ IsPassLoginCredentials(call))
        => \/ ret.kind \in {"Authentication", "NextStep"}
           \/ ret = Raised(UnknownBackendResponse)

----------------------------------------------------------------------------
(* C12 *)

\* C12: Terminal is absorbing.  A pass_login_credentials call made when the last
\* outcome was the Authentication of an accepted login (the nearest of the "later"
\* calls of the claim) puts nothing on the outbound queue, leaves the Identity
\* Record's username alone and does not populate the pending password.
C12_TerminalIsAbsorbing ==
    [][(HandlerStep /\ IsPassLoginCredentials(call') /\ call'.from = "TerminalSuccess"
            /\ accepted)
        => /\ ws_queue' = ws_queue
           /\ call'.puts = <<>>
           /\ user_info'.account_username = user_info.account_username
           /\ auth_data' \in {<<>>, auth_data}]_vars

----------------------------------------------------------------------------
(* C20 *)

\* C20: pass_login_credentials returns an Authentication only if, earlier in the
\* session, a credential submission was answered by NoActionRequired (received, or
\* substituted on timeout).
C20_AuthenticationOnlyAfterAcceptedSubmission ==
    (pc = "idle" /\ IsPassLoginCredentials(call) /\ ret.kind = "Authentication")
        => accepted

----------------------------------------------------------------------------
(* C13 *)

\* the task is a forwarding task (not the placeholder of __init__)
ForwardingTask(task) == task.coro = "_update_owned_games"

\* C13: a forwarding task passes the entries of its batch to add_game one at a time
\* in batch order and pauses exactly after the 50th, 100th, 150th, ... forwarded
\* entry: its k-th pause comes with 50k entries forwarded, at every moment it has
\* paused floor(i/50) times for i entries forwarded, and, add_game raising nothing,
\* it ends with all n entries forwarded and floor(n/50) pauses taken.
C13_PausesEveryFifty ==
    LET task == update_owned_games_task
        n == Len(task.new_games)
    IN ForwardingTask(task) =>
        /\ \A k \in DOMAIN task.pauses : task.pauses[k] = 50 * k
        /\ Len(task.pauses) = task.i \div 50
        /\ task.i <= Len(add_game_log)
        /\ SubSeq(add_game_log, Len(add_game_log) - task.i + 1, Len(add_game_log))
              = SubSeq(task.new_games, 1, task.i)
        /\ (task.state = "done" /\ task.error = None)
              => (task.i = n /\ Len(task.pauses) = n \div 50)

\* a batch of 120 entries has been forwarded with pauses after entries 50 and 100
C13_Witness ==
    /\ ForwardingTask(update_owned_games_task)
    /\ update_owned_games_task.state = "done"
    /\ Len(update_owned_games_task.new_games) = 120
    /\ update_owned_games_task.pauses = <<50, 100>>
    /\ Len(add_game_log) = 120

----------------------------------------------------------------------------
(* C14 *)

\* this step is the start of the forwarding task: the drain of the queue and what
\* follows it up to the first pause
DrainStep ==
    /\ ForwardingTask(update_owned_games_task)
    /\ update_owned_games_task.state = "running"
    /\ update_owned_games_task.at = "start"
    /\ update_owned_games_task' # update_owned_games_task
    /\ update_owned_games_task'.state # "cancelled"

----------------------------------------------------------------------------
(* C15 *)

\* C15: at most one forwarding task is active.  Whenever a forwarding task is
\* created, the task it replaces has finished; a task that has not finished (one
\* suspended in its pause as well) is never replaced, and only the task in place
\* drains the queue.
C15_OneForwardingTask ==
    [][/\ (/\ update_owned_games_task' # update_owned_games_task
           /\ update_owned_games_task'.state = "running"
           /\ update_owned_games_task'.at = "start")
            => done(update_owned_games_task)
       /\ ~done(update_owned_games_task)
            => /\ update_owned_games_task'.coro = update_owned_games_task.coro
               /\ update_owned_games_task'.new_games # update_owned_games_task.new_games
                    => DrainStep]_vars

\* a forwarding task is suspended in its pause while new entries wait in the queue
\* and the enumeration flag is set: the task's not being done is all that keeps
\* tick from starting another
C15_Witness ==
    /\ ForwardingTask(update_owned_games_task)
    /\ update_owned_games_task.state = "running"
    /\ update_owned_games_task.at = "sleep"
    /\ owned_games_parsed
    /\ games_cache.new_games # <<>>
    /\ ~shut.called

----------------------------------------------------------------------------
(* C16 *)

\* C16: a forwarding task is started, the queue drained and entries forwarded only
\* once a full owned-games enumeration has completed.
C16_DrainsOnlyAfterEnumeration ==
    (ForwardingTask(update_owned_games_task) \/ add_game_log # <<>>) => enumerated

----------------------------------------------------------------------------
(* C17 *)

\* C17: on every tick, whether or not a forwarding task is started: if the "changed"
\* flag of the Identity Record is set the credentials are persisted exactly once and
\* the flag is clear afterwards; if it is not set nothing is persisted; the other
\* fields of the Identity Record are left alone.
C17_TickPersistsChangedIdentity ==
    [][tick => /\ ticked'.stores = IF user_info.changed THEN 1 ELSE 0
               /\ ~user_info'.changed
               /\ user_info' = [user_info EXCEPT !.changed = FALSE]]_vars

\* a tick has persisted a changed Identity Record and cleared the flag
C17_Witness ==
    /\ ticked.stores = 1
    /\ user_info.steam_id # None
    /\ ~user_info.changed

----------------------------------------------------------------------------
(* C19 *)

\* C19: shutdown, in whatever state it is called, cancels the forwarding task and
\* the run-loop task and ends, without an error, with both tasks finished.
C19_ShutdownCancelsBothTasks ==
    [][shutdown => /\ shut'.raised = None
                   /\ done(update_owned_games_task')
                   /\ done(steam_run_task')]_vars

----------------------------------------------------------------------------
(* C18 *)

\* caller p starts a prepare_*_context call in this step, past the identity check
PrepareStarts(p) ==
    /\ preparing[p].at = "idle"
    /\ preparing'[p].at = "wait_ready"

\* C18: for overlapping prepare_achievements_context calls, and likewise
\* prepare_game_times_context calls, at most one refresh request per cache is in
\* flight; a call that starts while the cache's "import in progress" flag is set
\* issues no request and only waits on readiness; and a caller waiting when the
\* import completes is released, its call returning rather than timing out.
C18_OneRefreshInFlight ==
    [][/\ \A c \in Caches : caches'[c].in_flight <= 1
       /\ \A p \in Callers :
            /\ (PrepareStarts(p) /\ caches[preparing'[p].cache].import_in_progress)
                    => /\ ~preparing'[p].requested
                       /\ caches' = caches
            /\ (PrepareStarts(p) /\ ~caches[preparing'[p].cache].import_in_progress)
                    => /\ preparing'[p].requested
                       /\ caches'[preparing'[p].cache].in_flight = 1
            /\ (/\ preparing[p].at = "wait_ready"
                /\ caches[preparing[p].cache].import_in_progress
                /\ ~caches'[preparing[p].cache].import_in_progress)
                    => preparing'[p].at = "released"
            /\ (preparing[p].at = "released" /\ preparing'[p] # preparing[p])
                    => (preparing'[p].at = "idle" /\ preparing'[p].outcome = "returned")]_vars

\* a second caller, which issued no request, has returned on the import the first
\* caller requested
C18_Witness ==
    \E p, q \in Callers :
        /\ p # q
        /\ preparing[p].cache = preparing[q].cache
        /\ preparing[p].requested /\ preparing[p].outcome = "returned"
        /\ ~preparing[q].requested /\ preparing[q].outcome = "returned"
        /\ preparing[p].at = "idle" /\ preparing[q].at = "idle"

----------------------------------------------------------------------------
(* C21 *)

\* The result at the head of the inbound queue answers the submission of the running
\* call.  Both queues are first-in first-out, the session answers the oldest
\* submission, and the running call's submission is the newest one: its answer is
\* at the head exactly when nothing is left on the outbound queue and one result
\* is waiting.
HeadIsOwnResult == ws_queue = <<>> /\ Len(plugin_queue) = 1

\* C21: every handshake result a login or two-factor step acts on was produced in
\* response to that step's own submission: the result such a step takes off the
\* inbound queue is never one left over from an earlier submission.
C21_ResultAnswersOwnSubmission ==
    [][(HandlerStep /\ pc \in {"login_wait", "two_step_wait"} /\ plugin_queue # <<>>)
        => HeadIsOwnResult]_vars

----------------------------------------------------------------------------
(* C22 *)

\* every entry that has entered the "newly added" queue has been passed to add_game
AllForwarded ==
    \A g \in 1..games_cache.added : \E j \in DOMAIN add_game_log : add_game_log[j] = g

\* the gate of the catalog is open only once a full enumeration has completed: every
\* entry in the queue entered it after one
GateOpenAfterEnumeration == games_cache.add_game_lever => enumerated

\* C22: with tick invoked again and again and no shutdown, every entry that enters
\* the "newly added" queue after a full enumeration has completed is eventually
\* passed to add_game.  The entries being finitely many and the log only growing,
\* that is: from some moment on all of them have been forwarded.
C22_EveryEntryEventuallyForwarded ==
    []GateOpenAfterEnumeration => <>[]AllForwarded

====
